---- MODULE Spec2Model ----
(***************************************************************************)
(* A model of rekall's EWF (Expert Witness Format, v1) writer and reader,  *)
(* rekall-core/rekall/plugins/tools/ewf.py.                                *)
(*                                                                         *)
(* The backing medium is a map from byte offsets to cells.  Records keep   *)
(* the byte offsets and widths of EWF_TYPES; the value of a multi-byte     *)
(* field is held in the cell at the field's first byte and the other bytes *)
(* of the field are zero.  A cell that is absent from the map reads as     *)
(* zero (a hole, or a read past the end of the file).  Chunk payloads take *)
(* one cell per byte.                                                      *)
(*                                                                         *)
(* Quantities that are too large to enumerate are scaled down, keeping the *)
(* relations the code relies on: chunk_size (32 KiB -> 4), the sector size *)
(* (512 -> 2), the table flush threshold (30000 -> 1), the compressed flag *)
(* (bit 31 -> bit 4), the chunk cache capacity (100 -> 2), the width of an *)
(* unsigned field (2^64 -> 2^16) and the Adler-32 modulus (65521 -> 251).  *)
(*                                                                         *)
(* Four specifications share the variables and the actions:                *)
(*   Spec         the writer as shipped, then one reader;                  *)
(*   SpecCache    the reader's chunk cache built with capacity 0, 1 or the *)
(*                source's, and more reads;                                *)
(*   SpecDamaged  one byte of the closed medium damaged before it is read; *)
(*   SpecForeign  files of another chunk size in the writer's layout.      *)
(***************************************************************************)
EXTENDS Integers, Sequences, FiniteSets, TLC

\* ------------------------------------------------------------------ bounds

\* The number of write() calls made on one writer.
MaxWrites == 3

\* The number of Close() calls made on one writer.
MaxCloses == 2

\* The number of read() calls made on one reader.
MaxReads == 1

\* The number of write() calls and of read() calls where the capacity of the
\* chunk cache varies.
MaxCacheWrites == 2
MaxCacheReads == 3

\* The number of write() calls and of read() calls where the medium is
\* damaged before it is opened.
MaxDamagedWrites == 2
MaxDamagedReads == 2

\* ------------------------------------------------------- program constants

\* self.chunk_size = 32 * 1024 (scaled).
ChunkSize == 4

\* volume_header.bytes_per_sector = 512 (scaled).
BytesPerSector == 2

\* if len(self.table) > 30000 (scaled).
MaxTableEntries == 1

\* 0x80000000, the compressed bit of a table entry (scaled to bit 4).
CompressedFlag == 16

\* 0x7fffffff, the offset bits of a table entry (scaled to bits 0..3).
OffsetMask == 15

\* utils.FastStore(max_size=100) (scaled).
CacheMaxSize == 2

\* The range of a 'long long unsigned int' field (scaled from 2^64).
UnsignedRange == 65536

\* The modulus of Adler-32 (scaled from 65521; prime).
AdlerMod == 251

\* "EVF\x09\x0d\x0a\xff\x00": the cell that holds the v1 signature.
EVF_sig_v1 == 9

\* ewf_file_header_v1: 0x0d bytes.
FileHeaderSize == 13
FH_fields_start == 8
FH_segment_number == 9
FH_fields_end == 11

\* ewf_section_descriptor_v1: 76 bytes.
SectionSize == 76
SD_next == 16
SD_size == 24
SD_checksum == 72

\* ewf_volume: 94 bytes.
VolumeSize == 94
VOL_number_of_chunks == 4
VOL_sectors_per_chunk == 8
VOL_bytes_per_sector == 12
VOL_number_of_sectors == 16
VOL_checksum == 90

\* ewf_table_header_v1, and the 4-byte ewf_table_entry.
TH_base_offset == 8
TH_checksum == 20
TH_entries == 24
EntrySize == 4

\* self.last_section = None.
None == -1

\* The 16-byte type tag of a section descriptor, as the cell that holds it.
TypeTag(name) ==
    CASE name = "sectors" -> 1
      [] name = "table"   -> 2
      [] name = "volume"  -> 3
      [] name = "done"    -> 4
      [] name = "disk"    -> 5
      [] name = "header"  -> 6
      [] name = "header2" -> 7

\* ------------------------------------------------------------ the medium

Min(a, b) == IF a <= b THEN a ELSE b

\* The byte at offset o.
Cell(m, o) == IF o \in DOMAIN m THEN m[o] ELSE 0

\* address_space.read(offset, length): always length cells, zero filled.
ReadCells(m, offset, length) ==
    [i \in 1 .. length |-> Cell(m, offset + i - 1)]

\* address_space.write(offset, data).
WriteCells(m, offset, data) ==
    LET rng == offset .. (offset + Len(data) - 1)
        dom == (DOMAIN m \ rng) \cup {o \in rng : data[o - offset + 1] # 0}
    IN  [o \in dom |-> IF o \in rng THEN data[o - offset + 1] ELSE m[o]]

\* Assignment to a struct member of the given width at an absolute offset.
WriteField(m, offset, width, value) ==
    WriteCells(m, offset, [i \in 1 .. width |-> IF i = 1 THEN value ELSE 0])

\* A value stored into an unsigned 64-bit member wraps.
Unsigned(x) == x % UnsignedRange

\* ------------------------------------------------------------ zlib

\* The sum of f[i] over the positions i of a set.
RECURSIVE SumOver(_, _)
SumOver(f, positions) ==
    IF positions = {} THEN 0
    ELSE LET i == CHOOSE x \in positions : TRUE
         IN  f[i] + SumOver(f, positions \ {i})

\* zlib.adler32(data): a = 1 + the sum of the bytes, b = the sum of the values
\* a takes after each byte, both modulo AdlerMod; the zero bytes add nothing
\* to a.
Adler32(data) ==
    LET n  == Len(data)
        nz == {i \in 1 .. n : data[i] # 0}
        a  == (1 + SumOver(data, nz)) % AdlerMod
        b  == (n + SumOver([i \in 1 .. n |-> (n - i + 1) * data[i]], nz))
                % AdlerMod
    IN  b * AdlerMod + a

\* The length of the run of equal bytes that starts at position i.
RECURSIVE RunLength(_, _)
RunLength(data, i) ==
    IF i < Len(data) /\ data[i + 1] = data[i] THEN 1 + RunLength(data, i + 1)
    ELSE 1

\* A deflate stream: one symbol per run (2 * length + byte), then the end of
\* stream symbol 0.
RECURSIVE CompressFrom(_, _)
CompressFrom(data, i) ==
    IF i > Len(data) THEN <<0>>
    ELSE LET n == RunLength(data, i)
         IN  <<2 * n + data[i]>> \o CompressFrom(data, i + n)

\* zlib.compress(data).
Compress(data) == CompressFrom(data, 1)

\* The error value of a failed decompression.
ZlibError == <<-1>>

RECURSIVE DecompressFrom(_, _)
DecompressFrom(data, i) ==
    IF i > Len(data) THEN ZlibError
    ELSE IF data[i] = 0 THEN <<>>
    ELSE IF data[i] < 2 THEN ZlibError
    ELSE LET rest == DecompressFrom(data, i + 1)
         IN  IF rest = ZlibError THEN ZlibError
             ELSE [k \in 1 .. (data[i] \div 2) |-> data[i] % 2] \o rest

\* zlib.decompress(data): stops at the end of stream symbol, whatever follows.
Decompress(data) == DecompressFrom(data, 1)

\* ------------------------------------------------------------ the writer
\*
\* A writer is a record of the fields of EWFFileWriter: out_as, chunk_size,
\* current_offset, base_offset, chunk_id, buffer, table, table_count,
\* last_section.  Two
\* history fields record what the writer did: sections, the offsets of the
\* section descriptors in the order they were created, and chunks, one record
\* per chunk emitted by write().

\* A variant of UpdateChecksum that sums the record before it stores size.
SectionUpdateChecksum_BeforeSize(m, section) ==
    LET data == ReadCells(m, section, SD_checksum)
        m1   == WriteField(m, section + SD_checksum, 4, Adler32(data))
    IN  WriteField(m1, section + SD_size, 8,
                   Unsigned(Cell(m, section + SD_next) - section))

\* ewf_section_descriptor_v1.UpdateChecksum.
SectionUpdateChecksum(m, section) ==
    LET m1   == WriteField(m, section + SD_size, 8,
                           Unsigned(Cell(m, section + SD_next) - section))
        data == ReadCells(m1, section, SD_checksum)
    IN  WriteField(m1, section + SD_checksum, 4, Adler32(data))

\* ewf_table_header_v1.UpdateChecksum.
TableUpdateChecksum(m, header) ==
    WriteField(m, header + TH_checksum, 4,
               Adler32(ReadCells(m, header, TH_checksum)))

\* ewf_volume.UpdateChecksum (inherited from ewf_table_header_v1).
VolumeUpdateChecksum(m, header) ==
    WriteField(m, header + VOL_checksum, 4,
               Adler32(ReadCells(m, header, VOL_checksum)))

\* A new ewf_section_descriptor_v1 at offset with its type set.
NewSection(w, offset, name) ==
    [w EXCEPT !.out_as = WriteField(w.out_as, offset, 16, TypeTag(name)),
              !.sections = Append(w.sections, offset)]

\* A variant of AddNewSection that never links a section to itself.
AddNewSection_SkipSelf(w, section) ==
    IF w.last_section # None /\ w.last_section # section
    THEN LET m1 == WriteField(w.out_as, w.last_section + SD_next, 8, section)
         IN  [w EXCEPT !.out_as = SectionUpdateChecksum(m1, w.last_section),
                       !.last_section = section]
    ELSE [w EXCEPT !.last_section = section]

\* EWFFileWriter.AddNewSection.
AddNewSection(w, section) ==
    IF w.last_section # None
    THEN LET m1 == WriteField(w.out_as, w.last_section + SD_next, 8, section)
         IN  [w EXCEPT !.out_as = SectionUpdateChecksum(m1, w.last_section),
                       !.last_section = section]
    ELSE [w EXCEPT !.last_section = section]

\* A variant of StartNewTable that keeps the base offset of the table before.
StartNewTable_KeepBase(w) ==
    LET sectors_section == w.current_offset
        w1 == [w EXCEPT !.table = <<>>, !.table_count = w.table_count + 1]
        w2 == AddNewSection(NewSection(w1, sectors_section, "sectors"),
                            sectors_section)
    IN  [w2 EXCEPT !.base_offset =
                       IF w.table_count = 0 THEN sectors_section + SectionSize
                       ELSE w.base_offset,
                   !.current_offset = sectors_section + SectionSize]

\* EWFFileWriter.StartNewTable.
StartNewTable(w) ==
    LET sectors_section == w.current_offset
        w1 == [w EXCEPT !.table = <<>>, !.table_count = w.table_count + 1]
        w2 == AddNewSection(NewSection(w1, sectors_section, "sectors"),
                            sectors_section)
    IN  [w2 EXCEPT !.base_offset = sectors_section + SectionSize,
                   !.current_offset = sectors_section + SectionSize]

\* struct.pack("I" * len(table), *table), written at offset.
RECURSIVE WriteEntries(_, _, _, _)
WriteEntries(m, offset, table, i) ==
    IF i > Len(table) THEN m
    ELSE WriteEntries(WriteField(m, offset + EntrySize * (i - 1), EntrySize,
                                 table[i]),
                      offset, table, i + 1)

\* EWFFileWriter.FlushTable.
FlushTable(w) ==
    LET table_section == w.current_offset
        w1 == AddNewSection(NewSection(w, table_section, "table"),
                            table_section)
        table_header == table_section + SectionSize
        m1 == WriteField(w1.out_as, table_header, 8, Len(w.table))
        m2 == WriteField(m1, table_header + TH_base_offset, 8, w.base_offset)
        m3 == TableUpdateChecksum(m2, table_header)
        m4 == WriteEntries(m3, table_header + TH_entries, w.table, 1)
    IN  [w1 EXCEPT !.out_as = m4,
                   !.current_offset =
                       table_header + TH_entries + EntrySize * Len(w.table)]

\* 0x80000000 | chunk_offset.
OrCompressed(chunk_offset) ==
    IF (chunk_offset \div CompressedFlag) % 2 = 1 THEN chunk_offset
    ELSE chunk_offset + CompressedFlag

\* A variant of the comparison that stores a tie raw.
StoreRaw_Ties(cdata, data) == Len(cdata) >= Len(data)

\* len(cdata) > len(data): the block is stored raw.
StoreRaw(cdata, data) == Len(cdata) > Len(data)

\* A variant of the threshold test that never flushes.
TableTooLarge_Never(table) == FALSE

\* len(self.table) > 30000: the table is flushed.
TableTooLarge(table) == Len(table) > MaxTableEntries

\* One iteration of the loop of write(): the chunk at buffer_offset.
WriteChunk(w, buffer_offset) ==
    LET data  == SubSeq(w.buffer, buffer_offset + 1,
                        buffer_offset + w.chunk_size)
        cdata == Compress(data)
        chunk_offset == w.current_offset - w.base_offset
        raw   == StoreRaw(cdata, data)
        entry == IF raw THEN chunk_offset ELSE OrCompressed(chunk_offset)
        out   == IF raw THEN data ELSE cdata
        w1 == [w EXCEPT
                 !.table = Append(w.table, entry),
                 !.out_as = WriteCells(w.out_as, w.current_offset, out),
                 !.current_offset = w.current_offset + Len(out),
                 !.chunk_id = w.chunk_id + 1,
                 !.chunks = Append(w.chunks,
                     [data |-> data, entry |-> entry, chunk_offset |-> chunk_offset,
                      offset |-> w.current_offset, base_offset |-> w.base_offset,
                      length |-> Len(out), table_count |-> w.table_count])]
    IN  IF TableTooLarge(w1.table) THEN StartNewTable(FlushTable(w1)) ELSE w1

RECURSIVE WriteLoop(_, _)
WriteLoop(w, buffer_offset) ==
    IF Len(w.buffer) - buffer_offset >= w.chunk_size
    THEN WriteLoop(WriteChunk(w, buffer_offset), buffer_offset + w.chunk_size)
    ELSE [w EXCEPT !.buffer = SubSeq(w.buffer, buffer_offset + 1, Len(w.buffer))]

\* A variant of write that replaces the buffer by the new data.
write_DropBuffer(w, data) ==
    WriteLoop([w EXCEPT !.buffer = data], 0)

\* EWFFileWriter.write.
write(w, data) ==
    WriteLoop([w EXCEPT !.buffer = w.buffer \o data], 0)

\* Close: if there is some data left over, pad it to the length of the chunk.
ClosePad(w) ==
    IF Len(w.buffer) # 0
    THEN write(w, [i \in 1 .. (w.chunk_size - Len(w.buffer)) |-> 0])
    ELSE w

\* Close: the members of the ewf_volume record, in the order they are set.
VolumeFields(m, volume_header, chunk_id, chunk_size) ==
    LET m1 == WriteField(m, volume_header + VOL_number_of_chunks, 4, chunk_id)
        m2 == WriteField(m1, volume_header + VOL_sectors_per_chunk, 4,
                         chunk_size \div BytesPerSector)
        number_of_sectors ==
              Cell(m2, volume_header + VOL_number_of_chunks)
            * Cell(m2, volume_header + VOL_sectors_per_chunk)
        m3 == WriteField(m2, volume_header + VOL_number_of_sectors, 8,
                         number_of_sectors)
    IN  WriteField(m3, volume_header + VOL_bytes_per_sector, 4, BytesPerSector)

\* Close: the volume section, written at current_offset.
CloseVolume(w) ==
    LET volume_section == w.current_offset
        volume_header  == volume_section + SectionSize
        w1 == AddNewSection(NewSection(w, volume_section, "volume"),
                            volume_section)
    IN  [w1 EXCEPT !.out_as =
            VolumeUpdateChecksum(
                VolumeFields(w1.out_as, volume_header, w.chunk_id,
                             w.chunk_size),
                volume_header)]

\* Close: the done section at volume_header.obj_end; the last section points
\* to itself.
CloseDone(w) ==
    LET done_section == w.current_offset + SectionSize + VolumeSize
    IN  AddNewSection(
            AddNewSection(NewSection(w, done_section, "done"), done_section),
            done_section)

\* A variant of Close that does not flush the table it holds.
Close_SkipFlush(w) == CloseDone(CloseVolume(ClosePad(w)))

\* EWFFileWriter.Close.
Close(w) == CloseDone(CloseVolume(FlushTable(ClosePad(w))))

\* EWFFileWriter.__init__.
NewWriter ==
    LET m1 == WriteField(<<>>, 0, 8, EVF_sig_v1)
        m2 == WriteField(m1, FH_fields_start, 1, 1)
        m3 == WriteField(m2, FH_segment_number, 2, 1)
        m4 == WriteField(m3, FH_fields_end, 2, 1)
    IN  StartNewTable(
            [out_as |-> m4, chunk_size |-> ChunkSize,
             current_offset |-> FileHeaderSize, base_offset |-> 0,
             chunk_id |-> 0, buffer |-> <<>>, table |-> <<>>, table_count |-> 0,
             last_section |-> None, sections |-> <<>>, chunks |-> <<>>])

\* ------------------------------------------------------------ the reader
\*
\* A reader is a record of the fields of EWFFile: tables (in key order, each
\* with its first chunk id, the offset of its table header and its entries),
\* chunk_offset (_chunk_offset), chunk_size, size, and max_size, the capacity
\* of chunk_cache; error is "" or the exception the constructor raised.

\* Struct.walk_list("next"): this section, then the sections its next pointers
\* lead to, until a null pointer or a section already seen.
RECURSIVE WalkList(_, _, _)
WalkList(m, section, seen) ==
    LET next == Cell(m, section + SD_next)
    IN  IF next = 0 \/ next \in seen \cup {section} THEN <<section>>
        ELSE <<section>> \o WalkList(m, next, seen \cup {section})

\* EWFFile.handle_header, handle_header2: the payload must inflate.
handle_header(r, m, section) ==
    IF Decompress(ReadCells(m, section + SectionSize,
                            Cell(m, section + SD_size))) = ZlibError
    THEN [r EXCEPT !.error = "zlib.error"]
    ELSE r

\* EWFFile.handle_volume.
handle_volume(r, m, section) ==
    LET volume_header == section + SectionSize
    IN  [r EXCEPT !.chunk_size =
            Cell(m, volume_header + VOL_sectors_per_chunk)
              * Cell(m, volume_header + VOL_bytes_per_sector)]

\* table.append(table[-1] + self.chunk_size): the sentinel entry.
WithSentinel(table, chunk_size) ==
    Append(table, table[Len(table)] + chunk_size)

\* EWFFile.handle_table.
handle_table(r, m, section) ==
    LET table_header == section + SectionSize
        number_of_entries == Cell(m, table_header)
        table == [i \in 1 .. number_of_entries |->
                     Cell(m, table_header + TH_entries + EntrySize * (i - 1))]
    IN  IF Len(table) = 0 THEN [r EXCEPT !.error = "IndexError"]
        ELSE [r EXCEPT
                !.tables = Append(r.tables,
                    [start_chunk |-> r.chunk_offset,
                     table_header |-> table_header,
                     table |-> WithSentinel(table, r.chunk_size)]),
                !.chunk_offset = r.chunk_offset + number_of_entries]

\* The body of the loop over the sections in EWFFile.__init__.
HandleSection(r, m, section) ==
    LET type == Cell(m, section)
    IN  IF type = TypeTag("header2") \/ type = TypeTag("header")
        THEN handle_header(r, m, section)
        ELSE IF type = TypeTag("disk") \/ type = TypeTag("volume")
        THEN handle_volume(r, m, section)
        ELSE IF type = TypeTag("table")
        THEN handle_table(r, m, section)
        ELSE r

RECURSIVE HandleSections(_, _, _, _)
HandleSections(r, m, sections, i) ==
    IF i > Len(sections) \/ r.error # "" THEN r
    ELSE HandleSections(HandleSection(r, m, sections[i]), m, sections, i + 1)

\* A variant of the signature test that looks at the first byte only.
SignatureValid_FirstByte(m) == Cell(m, 0) = EVF_sig_v1

\* file_header.EVF_sig.is_valid(): the 8 bytes at offset 0 are the signature.
SignatureValid(m) ==
    ReadCells(m, 0, FH_fields_start)
      = [i \in 1 .. FH_fields_start |-> IF i = 1 THEN EVF_sig_v1 ELSE 0]

\* EWFFile.__init__.
EWFFile(m) ==
    LET r0 == [error |-> "", tables |-> <<>>, chunk_offset |-> 0,
               chunk_size |-> ChunkSize, size |-> 0,
               max_size |-> CacheMaxSize]
    IN  IF ~SignatureValid(m)
        THEN [r0 EXCEPT !.error = "EVF signature does not match."]
        ELSE LET r1 == HandleSections(r0, m,
                                      WalkList(m, FileHeaderSize, {}), 1)
             IN  [r1 EXCEPT !.size = r1.chunk_offset * r1.chunk_size]

\* utils.FastStore: the cache is a sequence of <<key, value>> pairs, the least
\* recently used first.
CacheHas(cache, key) == \E i \in 1 .. Len(cache) : cache[i][1] = key

CacheIndex(cache, key) == CHOOSE i \in 1 .. Len(cache) : cache[i][1] = key

Remove(seq, i) == SubSeq(seq, 1, i - 1) \o SubSeq(seq, i + 1, Len(seq))

\* FastStore.Get of a key that is present: the entry becomes the most recent.
CacheGet(cache, key) ==
    LET i == CacheIndex(cache, key)
    IN  [value |-> cache[i][2], cache |-> Append(Remove(cache, i), cache[i])]

\* FastStore.Put: the least recently used entries leave when the store is full.
CachePut(cache, max_size, key, value) ==
    LET c1 == IF CacheHas(cache, key)
              THEN Remove(cache, CacheIndex(cache, key)) ELSE cache
        c2 == Append(c1, <<key, value>>)
    IN  IF Len(c2) > max_size
        THEN SubSeq(c2, Len(c2) - max_size + 1, Len(c2))
        ELSE c2

\* SortedCollection.find_le: the index of the last table whose first chunk
\* id is at most chunk_id (0 if there is none: ValueError).
find_le(tables, chunk_id) ==
    LET le == {i \in 1 .. Len(tables) : tables[i].start_chunk <= chunk_id}
    IN  IF le = {} THEN 0 ELSE CHOOSE i \in le : \A j \in le : j <= i

\* A variant of the miss path that does not catch the IndexError of a chunk
\* id past the last entry.
DecodeChunk_NoCatch(r, m, chunk_id) ==
    LET t == find_le(r.tables, chunk_id)
    IN  IF t = 0 THEN [error |-> "ValueError", data |-> <<>>, found |-> FALSE]
        ELSE
        LET entry_index == chunk_id - r.tables[t].start_chunk + 1
            table == r.tables[t].table
        IN  IF entry_index + 1 > Len(table)
            THEN [error |-> "IndexError", data |-> <<>>, found |-> FALSE]
            ELSE
            LET table_entry == table[entry_index]
                offset == table_entry % (OffsetMask + 1)
                next_offset == table[entry_index + 1] % (OffsetMask + 1)
                data == ReadCells(m,
                            offset + Cell(m, r.tables[t].table_header
                                               + TH_base_offset),
                            next_offset - offset)
            IN  IF (table_entry \div CompressedFlag) % 2 = 1
                THEN LET plain == Decompress(data)
                     IN  IF plain = ZlibError
                         THEN [error |-> "zlib.error", data |-> <<>>,
                               found |-> FALSE]
                         ELSE [error |-> "", data |-> plain, found |-> TRUE]
                ELSE [error |-> "", data |-> data, found |-> TRUE]

\* The miss path of read_chunk, without the cache: the chunk decoded from the
\* medium.
DecodeChunk(r, m, chunk_id) ==
    LET t == find_le(r.tables, chunk_id)
    IN  IF t = 0 THEN [error |-> "ValueError", data |-> <<>>, found |-> FALSE]
        ELSE
        LET entry_index == chunk_id - r.tables[t].start_chunk + 1
            table == r.tables[t].table
        IN  IF entry_index + 1 > Len(table)
            THEN [error |-> "", data |-> <<>>, found |-> FALSE]
            ELSE
            LET table_entry == table[entry_index]
                offset == table_entry % (OffsetMask + 1)
                next_offset == table[entry_index + 1] % (OffsetMask + 1)
                compressed_chunk_size == next_offset - offset
                data == ReadCells(m,
                            offset + Cell(m, r.tables[t].table_header
                                               + TH_base_offset),
                            compressed_chunk_size)
            IN  IF (table_entry \div CompressedFlag) % 2 = 1
                THEN LET plain == Decompress(data)
                     IN  IF plain = ZlibError
                         THEN [error |-> "zlib.error", data |-> <<>>,
                               found |-> FALSE]
                         ELSE [error |-> "", data |-> plain, found |-> TRUE]
                ELSE [error |-> "", data |-> data, found |-> TRUE]

\* A variant of read_chunk that caches what it read before it decodes it.
read_chunk_PutFirst(r, m, cache, chunk_id) ==
    IF CacheHas(cache, chunk_id)
    THEN LET g == CacheGet(cache, chunk_id)
         IN  [error |-> "", data |-> g.value, cache |-> g.cache]
    ELSE LET d == DecodeChunk(r, m, chunk_id)
         IN  [error |-> d.error, data |-> d.data,
              cache |-> IF d.found \/ d.error = "zlib.error"
                        THEN CachePut(cache, r.max_size, chunk_id, d.data)
                        ELSE cache]

\* A variant of read_chunk that caches a chunk under its index in its table.
read_chunk_TableIndexKey(r, m, cache, chunk_id) ==
    IF CacheHas(cache, chunk_id)
    THEN LET g == CacheGet(cache, chunk_id)
         IN  [error |-> "", data |-> g.value, cache |-> g.cache]
    ELSE LET d == DecodeChunk(r, m, chunk_id)
             t == find_le(r.tables, chunk_id)
         IN  [error |-> d.error, data |-> d.data,
              cache |-> IF d.found
                        THEN CachePut(cache, r.max_size,
                                      chunk_id - r.tables[t].start_chunk, d.data)
                        ELSE cache]

\* EWFFile.read_chunk.
read_chunk(r, m, cache, chunk_id) ==
    IF CacheHas(cache, chunk_id)
    THEN LET g == CacheGet(cache, chunk_id)
         IN  [error |-> "", data |-> g.value, cache |-> g.cache]
    ELSE LET d == DecodeChunk(r, m, chunk_id)
         IN  [error |-> d.error, data |-> d.data,
              cache |-> IF d.found
                        THEN CachePut(cache, r.max_size, chunk_id, d.data)
                        ELSE cache]

\* data[start:stop] of Python.
Slice(data, start, stop) == SubSeq(data, start + 1, Min(stop, Len(data)))

\* EWFFile.read_partial.
read_partial(r, m, cache, offset, length) ==
    LET chunk_id == offset \div r.chunk_size
        chunk_offset == offset % r.chunk_size
        available_length == Min(length, r.chunk_size - chunk_offset)
        c == read_chunk(r, m, cache, chunk_id)
    IN  [c EXCEPT !.data = Slice(c.data, chunk_offset,
                                 chunk_offset + available_length)]

RECURSIVE ReadLoop(_, _, _, _, _, _)
ReadLoop(r, m, cache, offset, available_length, result) ==
    IF available_length <= 0
    THEN [error |-> "", data |-> result, cache |-> cache]
    ELSE LET p == read_partial(r, m, cache, offset, available_length)
         IN  IF p.error # ""
             THEN [error |-> p.error, data |-> <<>>, cache |-> p.cache]
             ELSE IF Len(p.data) = 0
             THEN [error |-> "", data |-> result, cache |-> p.cache]
             ELSE ReadLoop(r, m, p.cache, offset + Len(p.data),
                           available_length - Len(p.data), result \o p.data)

\* A variant of read that returns after the first partial read.
read_FirstPartial(r, m, cache, offset, length) ==
    IF length <= 0 THEN [error |-> "", data |-> <<>>, cache |-> cache]
    ELSE read_partial(r, m, cache, offset, length)

\* EWFFile.read.
read(r, m, cache, offset, length) == ReadLoop(r, m, cache, offset, length, <<>>)

\* ------------------------------------------------------------ the system
\*
\* One EWFFileWriter over an empty medium, driven as EWFAcquire.render drives
\* it (write() calls, then Close() from __exit__, possibly after an explicit
\* Close()), and then one EWFFile over the medium the writer left.

VARIABLES
    out_as,          \* the medium
    chunk_size, current_offset, base_offset, chunk_id, buffer, table,
    table_count,
    last_section,    \* the fields of the writer
    sections,        \* history: offsets of the descriptors created, in order
    chunks,          \* history: the chunks write() emitted
    written,         \* history: the bytes passed to write() by the caller
    writes, closes,  \* the number of write() and Close() calls made
    opened,          \* whether EWFFile() was called
    reader,          \* the fields of the reader
    chunk_cache,     \* the reader's chunk cache
    reads,           \* the number of read() calls made
    rd,              \* the last read(): its arguments and what it returned,
                     \* and how many read() calls raised so far
    damage           \* the offsets of the medium damaged after Close()

writer_vars == <<out_as, chunk_size, current_offset, base_offset, chunk_id,
                 buffer, table, table_count, last_section, sections, chunks>>
reader_vars == <<opened, reader, chunk_cache, reads, rd>>
vars == <<writer_vars, written, writes, closes, reader_vars, damage>>

\* The writer object.
Writer ==
    [out_as |-> out_as, chunk_size |-> chunk_size,
     current_offset |-> current_offset,
     base_offset |-> base_offset, chunk_id |-> chunk_id, buffer |-> buffer,
     table |-> table, table_count |-> table_count,
     last_section |-> last_section, sections |-> sections, chunks |-> chunks]

\* The writer object becomes w.
Becomes(w) ==
    /\ out_as' = w.out_as
    /\ chunk_size' = w.chunk_size
    /\ current_offset' = w.current_offset
    /\ base_offset' = w.base_offset
    /\ chunk_id' = w.chunk_id
    /\ buffer' = w.buffer
    /\ table' = w.table
    /\ table_count' = w.table_count
    /\ last_section' = w.last_section
    /\ sections' = w.sections
    /\ chunks' = w.chunks

\* The strings the caller passes to write().
Data ==
    { <<1>>,
      <<0, 0, 0, 0>>,
      <<0, 1, 0, 0, 1>>,
      <<1, 0, 1, 0, 1, 0, 1, 0>> }

NoRead == [offset |-> 0, length |-> 0, error |-> "", data |-> <<>>,
           failed |-> 0]

NoReader == [error |-> "", tables |-> <<>>, chunk_offset |-> 0,
             chunk_size |-> ChunkSize, size |-> 0, max_size |-> CacheMaxSize]

\* The writer object is w.
Is(w) ==
    /\ out_as = w.out_as
    /\ chunk_size = w.chunk_size
    /\ current_offset = w.current_offset
    /\ base_offset = w.base_offset
    /\ chunk_id = w.chunk_id
    /\ buffer = w.buffer
    /\ table = w.table
    /\ table_count = w.table_count
    /\ last_section = w.last_section
    /\ sections = w.sections
    /\ chunks = w.chunks

Init ==
    /\ Is(NewWriter)
    /\ written = <<>>
    /\ writes = 0
    /\ closes = 0
    /\ opened = FALSE
    /\ reader = NoReader
    /\ chunk_cache = <<>>
    /\ reads = 0
    /\ rd = NoRead
    /\ damage = {}

\* writer.write(data).
Write(data) ==
    /\ Becomes(write(Writer, data))
    /\ written' = written \o data
    /\ writes' = writes + 1
    /\ UNCHANGED <<closes, reader_vars, damage>>

\* writer.Close().
DoClose ==
    /\ Becomes(Close(Writer))
    /\ closes' = closes + 1
    /\ UNCHANGED <<written, writes, reader_vars, damage>>

\* EWFFile(address_space=out_as).
Open ==
    /\ opened' = TRUE
    /\ reader' = EWFFile(out_as)
    /\ chunk_cache' = <<>>
    /\ UNCHANGED <<writer_vars, written, writes, closes, reads, rd, damage>>

\* reader.read(offset, length).
Read(offset, length) ==
    LET res == read(reader, out_as, chunk_cache, offset, length)
    IN  /\ rd' = [offset |-> offset, length |-> length, error |-> res.error,
                  data |-> res.data,
                  failed |-> IF res.error = "" THEN rd.failed
                             ELSE rd.failed + 1]
        /\ chunk_cache' = res.cache
        /\ reads' = reads + 1
        /\ UNCHANGED <<writer_vars, written, writes, closes, opened, reader,
                       damage>>

\* The offsets read() is called with: the chunk boundaries and the bytes
\* before them, up to one chunk past the end of the image.
ReadOffsets ==
    {o \in 0 .. (reader.size + reader.chunk_size) :
        o % reader.chunk_size \in {0, reader.chunk_size - 1}}

\* The lengths read() is called with.
ReadLengths == {1, ChunkSize + 1, Len(written)}

Next ==
    \/ \E data \in Data :
         writes < MaxWrites /\ closes = 0 /\ ~opened /\ Write(data)
    \/ closes < MaxCloses /\ ~opened /\ DoClose
    \/ closes = 1 /\ ~opened /\ Open
    \/ \E offset \in ReadOffsets, length \in ReadLengths :
         opened /\ reader.error = "" /\ reads < MaxReads
           /\ Read(offset, length)

Spec == Init /\ [][Next]_vars

\* ------------------------------------------- readers of another cache capacity
\*
\* The same writer, and a reader whose chunk cache is built with a capacity
\* other than the one EWFFile.__init__ passes: utils.FastStore(max_size=n).

\* The capacities of the chunk cache: 0, 1 and the capacity of the source.
CacheSizes == {0, 1, CacheMaxSize}

\* EWFFile(address_space=out_as), its chunk_cache a FastStore(max_size).
OpenWith(max_size) ==
    /\ opened' = TRUE
    /\ reader' = [EWFFile(out_as) EXCEPT !.max_size = max_size]
    /\ chunk_cache' = <<>>
    /\ UNCHANGED <<writer_vars, written, writes, closes, reads, rd, damage>>

\* The offsets read() is called with: every chunk boundary of the image.
CacheReadOffsets == {o \in 0 .. reader.size : o % reader.chunk_size = 0}

\* The lengths read() is called with: within a chunk, and into the next one.
CacheReadLengths == {1, ChunkSize + 1}

NextCache ==
    \/ \E data \in Data :
         writes < MaxCacheWrites /\ closes = 0 /\ ~opened /\ Write(data)
    \/ closes = 0 /\ ~opened /\ DoClose
    \/ \E max_size \in CacheSizes : closes = 1 /\ ~opened /\ OpenWith(max_size)
    \/ \E offset \in CacheReadOffsets, length \in CacheReadLengths :
         opened /\ reader.error = "" /\ reads < MaxCacheReads
           /\ Read(offset, length)

SpecCache == Init /\ [][NextCache]_vars

\* ------------------------------------------------------- a damaged medium
\*
\* The same writer; after Close() one byte of the medium is overwritten (the
\* file was damaged in storage), and then a reader is built over it.

\* The byte that replaces the byte at a damaged offset.
DamageByte == 1

\* The offsets that may be damaged: the first and the fourth byte of the
\* signature, and the first byte stored for each chunk.
DamageOffsets == {0, 3} \cup {chunks[k].offset : k \in 1 .. Len(chunks)}

\* One byte of the medium changes.
Damage(offset) ==
    /\ Cell(out_as, offset) # DamageByte
    /\ out_as' = WriteCells(out_as, offset, <<DamageByte>>)
    /\ damage' = damage \cup {offset}
    /\ UNCHANGED <<chunk_size, current_offset, base_offset, chunk_id, buffer,
                   table, table_count, last_section, sections, chunks,
                   written, writes, closes, reader_vars>>

\* The offsets read() is called with: the start of every chunk of the image.
DamagedReadOffsets ==
    {o \in 0 .. (reader.size - 1) : o % reader.chunk_size = 0}

NextDamaged ==
    \/ \E data \in Data :
         writes < MaxDamagedWrites /\ closes = 0 /\ ~opened /\ Write(data)
    \/ closes = 0 /\ ~opened /\ DoClose
    \/ \E offset \in DamageOffsets :
         closes = 1 /\ ~opened /\ damage = {} /\ Damage(offset)
    \/ closes = 1 /\ ~opened /\ Open
    \/ \E offset \in DamagedReadOffsets, length \in CacheReadLengths :
         opened /\ reader.error = "" /\ reads < MaxDamagedReads
           /\ Read(offset, length)

SpecDamaged == Init /\ [][NextDamaged]_vars

\* ------------------------------------------------ files of another chunk size
\*
\* The reader takes the chunk size from the volume section, so it is meant
\* for files of any chunk size.  Such files are produced by the same writer
\* with its chunk_size attribute set to another multiple of the sector size
\* before the first write(); their layout is the writer's (the volume section
\* follows the tables).

\* The chunk sizes of the files: one sector, the writer's own, and twice that.
ChunkSizes == {BytesPerSector, ChunkSize, 2 * ChunkSize}

InitForeign ==
    /\ \E n \in ChunkSizes : Is([NewWriter EXCEPT !.chunk_size = n])
    /\ written = <<>>
    /\ writes = 0
    /\ closes = 0
    /\ opened = FALSE
    /\ reader = NoReader
    /\ chunk_cache = <<>>
    /\ reads = 0
    /\ rd = NoRead
    /\ damage = {}

SpecForeign == InitForeign /\ [][Next]_vars

\* ------------------------------------------------------------ the claims

\* What is on the medium, as the section chain shows it.
Chain == WalkList(out_as, FileHeaderSize, {})
ChainSet == {Chain[i] : i \in 1 .. Len(Chain)}
SectionType(section) == Cell(out_as, section)
SectionNext(section) == Cell(out_as, section + SD_next)
TableSections == {s \in ChainSet : SectionType(s) = TypeTag("table")}
VolumeSections == {s \in ChainSet : SectionType(s) = TypeTag("volume")}
NumberOfEntries(s) == Cell(out_as, s + SectionSize)
TableBase(s) == Cell(out_as, s + SectionSize + TH_base_offset)
EntryAt(s, i) ==
    Cell(out_as, s + SectionSize + TH_entries + EntrySize * (i - 1))
EntryOffset(entry) == entry % (OffsetMask + 1)
EntryCompressed(entry) == (entry \div CompressedFlag) % 2 = 1

\* The bytes write() stored for a chunk, as the medium holds them now.
Stored(c) == ReadCells(out_as, c.offset, c.length)

\* C1: round-trip identity.  Whatever bytes the writer was given, in whatever
\* split of write() calls, after Close() a reader opens the medium and
\* read(0, L) returns exactly those bytes.
C1_RoundTrip ==
    opened =>
        /\ reader.error = ""
        /\ LET res == read(reader, out_as, chunk_cache, 0, Len(written))
           IN  res.error = "" /\ res.data = written

\* C2: table boundaries.  When the writer emitted more chunks than the table
\* threshold, the closed file holds at least two table sections, the reader
\* opens it, every table registered starts at the number of entries of the
\* tables before it, and chunk c read back is the c-th chunk written.
C2_TableBoundaries ==
    (opened /\ chunk_id > MaxTableEntries) =>
        /\ Cardinality(TableSections) >= 2
        /\ reader.error = ""
        /\ \A c \in 0 .. (chunk_id - 1) :
             LET res == read_chunk(reader, out_as, chunk_cache, c)
             IN  res.error = "" /\ res.data = chunks[c + 1].data

\* C3: Close is idempotent.  A Close() after the first one leaves the medium
\* and the writer's current_offset, table, last_section and chunk_id as they
\* were, and the file reads back the same.
C3_CloseIdempotent ==
    [][(closes >= 1 /\ closes' = closes + 1) =>
          /\ out_as' = out_as
          /\ current_offset' = current_offset
          /\ table' = table
          /\ last_section' = last_section
          /\ chunk_id' = chunk_id
          /\ EWFFile(out_as') = EWFFile(out_as)]_vars

\* C4: table size cap.  Every table section on the medium has at most the
\* threshold number of entries (30000 in the source).
C4_TableSizeCap ==
    \A s \in TableSections : NumberOfEntries(s) <= MaxTableEntries

\* C5: the section chain terminates.  After the writes and one Close(), the
\* next pointers from the first descriptor visit every section created, once
\* and in creation order, and end at a done descriptor whose next is its own
\* offset; no other descriptor points to itself.
C5_ChainTerminates ==
    closes = 1 =>
        /\ Chain = sections
        /\ Chain[1] = FileHeaderSize
        /\ \A i \in 1 .. Len(Chain) : \A j \in 1 .. Len(Chain) :
             Chain[i] = Chain[j] => i = j
        /\ SectionType(Chain[Len(Chain)]) = TypeTag("done")
        /\ \A i \in 1 .. Len(Chain) :
             (SectionNext(Chain[i]) = Chain[i]) <=> (i = Len(Chain))
        /\ \A i \in 1 .. (Len(Chain) - 1) : SectionNext(Chain[i]) = Chain[i + 1]

C5_Witness ==
    /\ closes = 1
    /\ Len(sections) >= 6
    /\ SectionNext(sections[Len(sections)]) = sections[Len(sections)]

C7_OffsetBudget ==
    \A i \in 1 .. Len(chunks) :
        LET c == chunks[i]
        IN  /\ c.chunk_offset >= 0
            /\ c.chunk_offset < CompressedFlag
            /\ EntryOffset(c.entry) = c.chunk_offset
            /\ c.base_offset + EntryOffset(c.entry) = c.offset

C7_Witness ==
    \E i \in 1 .. Len(chunks) :
        /\ chunks[i].chunk_offset > 0
        /\ EntryCompressed(chunks[i].entry)
        /\ chunks[i].table_count >= 2

\* C8: entry order.  In every table on the medium the offsets of consecutive
\* entries increase strictly and the first entry has offset 0; the payload of
\* every chunk is on the medium before the table section that indexes it, so
\* it lies between the table's base offset and the table section.
C8_EntryOrder ==
    /\ \A s \in TableSections :
         /\ NumberOfEntries(s) >= 1 => EntryOffset(EntryAt(s, 1)) = 0
         /\ \A i \in 1 .. (NumberOfEntries(s) - 1) :
              EntryOffset(EntryAt(s, i)) < EntryOffset(EntryAt(s, i + 1))
         /\ \A i \in 1 .. NumberOfEntries(s) :
              /\ TableBase(s) + EntryOffset(EntryAt(s, i)) < s
              /\ \E k \in 1 .. Len(chunks) :
                   /\ chunks[k].offset = TableBase(s) + EntryOffset(EntryAt(s, i))
                   /\ chunks[k].entry = EntryAt(s, i)
    /\ closes = 0 =>
         /\ Len(table) >= 1 => EntryOffset(table[1]) = 0
         /\ \A i \in 1 .. (Len(table) - 1) :
              EntryOffset(table[i]) < EntryOffset(table[i + 1])
         /\ \A i \in 1 .. Len(table) :
              /\ base_offset + EntryOffset(table[i]) < current_offset
              /\ \E k \in 1 .. Len(chunks) :
                   /\ chunks[k].offset = base_offset + EntryOffset(table[i])
                   /\ chunks[k].entry = table[i]

C8_Witness ==
    /\ closes = 1
    /\ \E s \in TableSections : NumberOfEntries(s) = 2
    /\ \E s \in TableSections :
         NumberOfEntries(s) = 1 /\ TableBase(s) > FileHeaderSize + SectionSize

\* C9: compression choice.  A chunk whose compressed form is strictly longer
\* than the block is stored raw, with the compressed bit clear and
\* current_offset advanced by chunk_size; any other chunk (ties included) is
\* stored compressed, with the bit set and current_offset advanced by the
\* compressed length.  Either way at most chunk_size bytes are stored.
C9_CompressionChoice ==
    \A i \in 1 .. Len(chunks) :
        LET c == chunks[i]
            cdata == Compress(c.data)
        IN  /\ Len(c.data) = ChunkSize
            /\ IF Len(cdata) > Len(c.data)
               THEN /\ ~EntryCompressed(c.entry)
                    /\ c.length = ChunkSize
                    /\ Stored(c) = c.data
               ELSE /\ EntryCompressed(c.entry)
                    /\ c.length = Len(cdata)
                    /\ Stored(c) = cdata
            /\ c.length <= ChunkSize
            /\ (i < Len(chunks) /\ chunks[i + 1].table_count = c.table_count)
                 => chunks[i + 1].offset = c.offset + c.length
            /\ i = Len(chunks) /\ closes = 0 /\ table # <<>>
                 => current_offset = c.offset + c.length

C9_Witness ==
    /\ \E i \in 1 .. Len(chunks) :
         Len(Compress(chunks[i].data)) > ChunkSize
    /\ \E i \in 1 .. Len(chunks) :
         Len(Compress(chunks[i].data)) = ChunkSize
    /\ \E i \in 1 .. Len(chunks) :
         Len(Compress(chunks[i].data)) < ChunkSize

\* Whether read(a, n) equals read(a, k) followed by read(a + k, n - k), the
\* reads being made in this order from the given cache.
SplitAgrees(cache, a, n, k) ==
    LET r0 == read(reader, out_as, cache, a, n)
        r1 == read(reader, out_as, r0.cache, a, k)
        r2 == read(reader, out_as, r1.cache, a + k, n - k)
    IN  /\ r0.error = "" /\ r1.error = "" /\ r2.error = ""
        /\ Len(r0.data) = n
        /\ r0.data = r1.data \o r2.data

\* C10: random access consistency.  On an opened reader, a read that lies
\* within the image returns the same bytes as the two reads any split point
\* divides it into, whatever the cache holds: for the read just made and
\* every split of it, and, on a reader that has not read yet, for every
\* range of up to two chunks and a byte.
C10_SplitReads ==
    /\ (opened /\ reads >= 1 /\ rd.offset + rd.length <= reader.size) =>
         /\ rd.error = ""
         /\ \A k \in 0 .. rd.length :
              /\ SplitAgrees(chunk_cache, rd.offset, rd.length, k)
              /\ read(reader, out_as, chunk_cache, rd.offset, k).data
                   = SubSeq(rd.data, 1, k)
    /\ (opened /\ reads = 0 /\ reader.error = "") =>
         \A a \in 0 .. reader.size :
           \A n \in 0 .. Min(2 * ChunkSize + 1, reader.size - a) :
             \A k \in 0 .. n : SplitAgrees(chunk_cache, a, n, k)

C10_Witness ==
    /\ opened /\ reads >= 1
    /\ Len(reader.tables) >= 2
    /\ rd.length = ChunkSize + 1
    /\ rd.offset = MaxTableEntries * ChunkSize + ChunkSize + ChunkSize - 1
    /\ Len(rd.data) = rd.length

\* What read(offset, length) returns on a reader that keeps no chunk: every
\* read_chunk decodes the chunk from the medium.
Uncached(offset, length) ==
    read([reader EXCEPT !.max_size = 0], out_as, <<>>, offset, length)

\* C11: cache transparency.  Whatever reads were made and whatever the
\* capacity of the chunk cache (0, 1 or the capacity of the source), the cache
\* holds at most its capacity, each chunk at most once, every cached entry is
\* the chunk as decoded from the medium, the read just made returned what a
\* reader without a cache returns, and so would any read made next.
C11_CacheTransparent ==
    (opened /\ reader.error = "") =>
        /\ Len(chunk_cache) <= reader.max_size
        /\ \A i \in 1 .. Len(chunk_cache) : \A j \in 1 .. Len(chunk_cache) :
             chunk_cache[i][1] = chunk_cache[j][1] => i = j
        /\ \A i \in 1 .. Len(chunk_cache) :
             LET d == DecodeChunk(reader, out_as, chunk_cache[i][1])
             IN  d.found /\ d.error = "" /\ d.data = chunk_cache[i][2]
        /\ reads >= 1 =>
             /\ rd.error = ""
             /\ rd.data = Uncached(rd.offset, rd.length).data
        /\ \A offset \in CacheReadOffsets, length \in CacheReadLengths :
             LET res == read(reader, out_as, chunk_cache, offset, length)
             IN  /\ res.error = ""
                 /\ res.data = Uncached(offset, length).data

C11_Witness ==
    /\ opened /\ reads = MaxCacheReads
    /\ reader.chunk_offset > CacheMaxSize
    /\ reader.max_size = 1
    /\ rd.offset = 0 /\ rd.length = ChunkSize + 1
    /\ Len(rd.data) = ChunkSize + 1
    /\ Len(chunk_cache) = 1
    /\ chunk_cache[1][1] = 1

\* The logical image the reader presents: the bytes given to write(), then
\* zeros up to the reader's size.
Image ==
    [i \in 1 .. reader.size |-> IF i <= Len(written) THEN written[i] ELSE 0]

\* The bytes of the image in [offset, offset + length), cut at its end.
ImageBytes(offset, length) ==
    SubSeq(Image, offset + 1, Min(offset + length, reader.size))

\* The lengths a read is checked with on a reader that has not read yet.
ShortReadLengths == {0, 1, ChunkSize, reader.size + 1}

\* C12: short read, never an error.  On a reader that opened, read(offset,
\* length) raises nothing and returns the bytes of the image in [offset,
\* offset + n) with n = max(0, min(length, size - offset)): fewer bytes than
\* asked only when the request passes the end of the image, and nothing from
\* the end on.  Checked for the read made, and on a reader that has not read
\* yet for every offset up to a byte past the end.
C12_ShortRead ==
    /\ (opened /\ reads >= 1) =>
         /\ rd.error = ""
         /\ rd.data = ImageBytes(rd.offset, rd.length)
         /\ Len(rd.data) = IF rd.offset >= reader.size THEN 0
                           ELSE Min(rd.length, reader.size - rd.offset)
         /\ Len(rd.data) < rd.length => rd.offset + rd.length > reader.size
    /\ (opened /\ reads = 0 /\ reader.error = "") =>
         \A offset \in 0 .. (reader.size + 1) : \A length \in ShortReadLengths :
             LET res == read(reader, out_as, chunk_cache, offset, length)
             IN  /\ res.error = ""
                 /\ res.data = ImageBytes(offset, length)
                 /\ Len(res.data) = IF offset >= reader.size THEN 0
                                    ELSE Min(length, reader.size - offset)

C12_Witness ==
    /\ opened /\ reads >= 1
    /\ Len(reader.tables) >= 2
    /\ rd.offset < reader.size
    /\ rd.offset + rd.length > reader.size
    /\ Len(rd.data) = reader.size - rd.offset
    /\ \E i \in 1 .. Len(rd.data) : rd.data[i] # 0

\* ceil(n / d).
CeilDiv(n, d) == (n + d - 1) \div d

\* C13: logical size and padding.  After L bytes were written and Close()
\* was called, the volume record's number_of_chunks and the writer's chunk_id
\* are ceil(L / chunk_size), fewer than chunk_size bytes of padding were
\* added, a reader opens the medium with size ceil(L / chunk_size) *
\* chunk_size, and the bytes it returns for [L, size) are zero.
C13_LogicalSize ==
    closes = 1 =>
        LET L == Len(written)
            r == EWFFile(out_as)
        IN  /\ chunk_id = CeilDiv(L, ChunkSize)
            /\ chunk_id * ChunkSize - L \in 0 .. (ChunkSize - 1)
            /\ Cardinality(VolumeSections) = 1
            /\ \A s \in VolumeSections :
                 Cell(out_as, s + SectionSize + VOL_number_of_chunks) = chunk_id
            /\ r.error = ""
            /\ r.size = CeilDiv(L, ChunkSize) * ChunkSize
            /\ LET res == read(r, out_as, <<>>, L, r.size - L)
               IN  /\ res.error = ""
                   /\ res.data = [i \in 1 .. (r.size - L) |-> 0]

\* One past the highest offset that holds a byte other than zero: every write
\* at or beyond it appends.
HighWater(m) ==
    IF DOMAIN m = {} THEN 0
    ELSE (CHOOSE o \in DOMAIN m : \A p \in DOMAIN m : p <= o) + 1

\* Whether offset o lies in what AddNewSection patches in a descriptor: its
\* next and checksum fields, and its size field, which UpdateChecksum lays
\* down with them when nothing was stored there before.
InPatch(m, section, o) ==
    /\ section # None
    /\ \/ o \in (section + SD_next) .. (section + SD_size - 1)
       \/ o \in (section + SD_checksum) .. (section + SectionSize - 1)
       \/ /\ o \in (section + SD_size) .. (section + SD_size + 7)
          /\ Cell(m, section + SD_size) = 0

\* C14: append-only frame.  In every step of the writer, a byte of the medium
\* that changes either lies at or beyond the highest offset written before
\* the step, or belongs to the patch of the descriptor that was the last
\* section before the step; nothing else that was laid down changes.
C14_AppendOnly ==
    [][\A o \in (DOMAIN out_as \cup DOMAIN out_as') :
          (Cell(out_as, o) # Cell(out_as', o) /\ o < HighWater(out_as))
              => InPatch(out_as, last_section, o)]_vars

\* The number of sectors sections among the first i sections of the chain.
SectorsBefore(i) ==
    Cardinality({j \in 1 .. i : SectionType(Chain[j]) = TypeTag("sectors")})

\* The bytes the writer laid down for the i-th section of the chain, its
\* descriptor included: the chunk payloads of a sectors section, the header
\* and entries of a table, the volume record, nothing for done.
SectionBytes(i) ==
    LET s == Chain[i]
        type == SectionType(s)
        mine == {k \in 1 .. Len(chunks) :
                    chunks[k].table_count = SectorsBefore(i)}
    IN  SectionSize +
        (CASE type = TypeTag("sectors") ->
                  SumOver([k \in 1 .. Len(chunks) |-> chunks[k].length], mine)
           [] type = TypeTag("table") ->
                  TH_entries + EntrySize * NumberOfEntries(s)
           [] type = TypeTag("volume") -> VolumeSize
           [] OTHER -> 0)

\* C15: the size field.  After Close(), the size field of every section
\* descriptor of the file (sectors, table, volume, done) is the length in
\* bytes of the section, descriptor and payload, so it is at least the 76
\* bytes of the descriptor.
C15_SectionSize ==
    closes = 1 =>
        \A i \in 1 .. Len(Chain) :
            /\ Cell(out_as, Chain[i] + SD_size) = SectionBytes(i)
            /\ Cell(out_as, Chain[i] + SD_size) >= SectionSize

\* C16: a bad signature is fatal on open.  When the first 8 bytes of the
\* medium are not the v1 signature, the constructor raises the signature
\* error; no section was walked, so no table is registered, no chunk is
\* counted, there is no size and nothing is read.
C16_BadSignature ==
    (opened /\ \E i \in 0 .. 7 :
                 Cell(out_as, i) # (IF i = 0 THEN EVF_sig_v1 ELSE 0)) =>
        /\ reader.error = "EVF signature does not match."
        /\ reader.tables = <<>>
        /\ reader.chunk_offset = 0
        /\ reader.size = 0
        /\ reads = 0 /\ chunk_cache = <<>>

C16_Witness ==
    /\ opened
    /\ damage = {3}
    /\ reader.error # ""
    /\ LET r == EWFFile(WriteCells(out_as, 3, <<0>>))
       IN  r.error = "" /\ Len(r.tables) >= 2 /\ r.size > 0

\* Whether the descriptor at section carries the checksum of its bytes as
\* they are now.
ChecksumCurrent(section) ==
    Cell(out_as, section + SD_checksum)
      = Adler32(ReadCells(out_as, section, SD_checksum))

\* Whether nothing but the type was stored in the descriptor at section.
Unpatched(section) ==
    /\ SectionNext(section) = 0
    /\ Cell(out_as, section + SD_size) = 0
    /\ Cell(out_as, section + SD_checksum) = 0

\* C17: the order of patching.  In every state of the writer, each section
\* created before the most recent one has next equal to the offset of the
\* section created right after it and a checksum that covers that next; the
\* most recent one is unpatched until Close() has run, and is then a done
\* descriptor that points to itself; no other descriptor ever points to
\* itself.
C17_PatchOrder ==
    LET n == Len(sections)
    IN  /\ \A i \in 1 .. (n - 1) :
             /\ SectionNext(sections[i]) = sections[i + 1]
             /\ SectionNext(sections[i]) # sections[i]
             /\ ChecksumCurrent(sections[i])
        /\ closes = 0 => Unpatched(sections[n])
        /\ closes >= 1 =>
             /\ SectionType(sections[n]) = TypeTag("done")
             /\ SectionNext(sections[n]) = sections[n]
             /\ ChecksumCurrent(sections[n])

\* The chunks whose decoding fails, and the chunks whose stored bytes were
\* damaged.
BadChunks ==
    {c \in 0 .. (chunk_id - 1) :
        DecodeChunk(reader, out_as, c).error = "zlib.error"}
DamagedChunks ==
    {c \in 0 .. (chunk_id - 1) : chunks[c + 1].offset \in damage}

\* Whether read(offset, length) needs a byte of chunk c.
Touches(offset, length, c) ==
    /\ length > 0
    /\ offset < (c + 1) * reader.chunk_size
    /\ offset + length > c * reader.chunk_size

\* C18: a decompression failure is local.  On a reader that opened, only a
\* chunk whose stored bytes are damaged fails to decode; for a chunk c that
\* fails, read_chunk(c) raises and leaves the cache as it was, the cache
\* never holds an entry for c, and every entry it holds is the chunk as
\* decoded from the medium; a read() that touches c raises, and a read()
\* that touches no damaged chunk, made after it or not, returns the bytes of
\* the image.
C18_LocalFailure ==
    (opened /\ reader.error = "") =>
        /\ BadChunks \subseteq DamagedChunks
        /\ \A c \in BadChunks :
             /\ ~CacheHas(chunk_cache, c)
             /\ LET res == read_chunk(reader, out_as, chunk_cache, c)
                IN  res.error = "zlib.error" /\ res.cache = chunk_cache
        /\ \A i \in 1 .. Len(chunk_cache) :
             LET d == DecodeChunk(reader, out_as, chunk_cache[i][1])
             IN  d.found /\ d.data = chunk_cache[i][2]
        /\ reads >= 1 =>
             /\ (\E c \in BadChunks : Touches(rd.offset, rd.length, c))
                  <=> rd.error = "zlib.error"
             /\ rd.error \in {"", "zlib.error"}
             /\ (\A c \in DamagedChunks : ~Touches(rd.offset, rd.length, c))
                  => rd.data = ImageBytes(rd.offset, rd.length)
        /\ \A offset \in DamagedReadOffsets, length \in CacheReadLengths :
             (\A c \in DamagedChunks : ~Touches(offset, length, c)) =>
                 LET res == read(reader, out_as, chunk_cache, offset, length)
                 IN  /\ res.error = ""
                     /\ res.data = ImageBytes(offset, length)

C18_Witness ==
    /\ opened /\ reads = 2
    /\ BadChunks # {}
    /\ rd.failed = 1
    /\ rd.error = ""
    /\ Len(rd.data) = ChunkSize + 1
    /\ \E i \in 1 .. Len(rd.data) : rd.data[i] # 0
    /\ Len(chunk_cache) = 2

\* The chunk size the volume section of the file declares.
DeclaredChunkSize ==
    LET s == CHOOSE v \in VolumeSections : TRUE
    IN  Cell(out_as, s + SectionSize + VOL_sectors_per_chunk)
          * Cell(out_as, s + SectionSize + VOL_bytes_per_sector)

\* The number of bytes read_chunk asks the medium for, for the e-th entry of
\* a table the reader registered.
Requested(t, e) ==
    EntryOffset(reader.tables[t].table[e + 1])
      - EntryOffset(reader.tables[t].table[e])

\* The record write() logged for the e-th chunk of the t-th table.
ChunkOf(t, e) == chunks[reader.tables[t].start_chunk + e]

\* C19: sentinel sizing.  For every table the reader registered, the entry
\* appended after the last one is the last entry plus the chunk size the
\* volume section declares; so the bytes read_chunk asks for are the stored
\* length for every chunk but the last of its table, and the declared chunk
\* size, which is at least the stored length, for the last.
C19_SentinelSizing ==
    (opened /\ reader.error = "") =>
        \A t \in 1 .. Len(reader.tables) :
            LET tab == reader.tables[t].table
                n   == Len(tab) - 1
            IN  /\ tab[n + 1] = tab[n] + DeclaredChunkSize
                /\ \A e \in 1 .. (n - 1) :
                     Requested(t, e) = ChunkOf(t, e).length
                /\ Requested(t, n) = DeclaredChunkSize
                /\ Requested(t, n) >= ChunkOf(t, n).length

\* The file offset of the chunk that entry i of the table section s indexes.
PayloadOffset(s, i) == TableBase(s) + EntryOffset(EntryAt(s, i))

\* The number of bytes write() stored at a file offset.
StoredLength(offset) ==
    LET k == CHOOSE j \in 1 .. Len(chunks) : chunks[j].offset = offset
    IN  chunks[k].length

\* C20: section layout.  After the writes and one Close(), the chain is one
\* or more pairs of a sectors and a table section, then volume, then done;
\* the base offset of each table is the end of the descriptor of the sectors
\* section before it; the chunks a table indexes follow each other without
\* a gap from the base offset to the table section; and every chunk written
\* is indexed by exactly one entry, the entries of all tables numbering
\* chunk_id.
C20_SectionLayout ==
    closes = 1 =>
        LET n == Len(Chain)
            pairs == (n - 2) \div 2
        IN  /\ n >= 4 /\ n % 2 = 0
            /\ SectionType(Chain[n]) = TypeTag("done")
            /\ SectionType(Chain[n - 1]) = TypeTag("volume")
            /\ \A j \in 1 .. pairs :
                 LET sec == Chain[2 * j - 1]
                     tab == Chain[2 * j]
                     k   == NumberOfEntries(tab)
                 IN  /\ SectionType(sec) = TypeTag("sectors")
                     /\ SectionType(tab) = TypeTag("table")
                     /\ TableBase(tab) = sec + SectionSize
                     /\ k = 0 => tab = TableBase(tab)
                     /\ k >= 1 =>
                          /\ PayloadOffset(tab, 1) = TableBase(tab)
                          /\ PayloadOffset(tab, k)
                               + StoredLength(PayloadOffset(tab, k)) = tab
                     /\ \A i \in 1 .. (k - 1) :
                          PayloadOffset(tab, i + 1)
                            = PayloadOffset(tab, i)
                                + StoredLength(PayloadOffset(tab, i))
            /\ SumOver([j \in 1 .. pairs |-> NumberOfEntries(Chain[2 * j])],
                       1 .. pairs) = chunk_id
            /\ Len(chunks) = chunk_id
            /\ \A c \in 1 .. Len(chunks) :
                 Cardinality({p \in (1 .. pairs) \X (1 .. (MaxTableEntries + 1)) :
                     /\ p[2] <= NumberOfEntries(Chain[2 * p[1]])
                     /\ PayloadOffset(Chain[2 * p[1]], p[2]) = chunks[c].offset
                     /\ EntryAt(Chain[2 * p[1]], p[2]) = chunks[c].entry}) = 1

C20_Witness ==
    /\ closes = 1
    /\ Len(Chain) >= 8
    /\ \E s \in TableSections : NumberOfEntries(s) = MaxTableEntries + 1
    /\ \E s \in TableSections : NumberOfEntries(s) = 1

\* C21: the writer's buffer.  After every write() and before Close(), with
\* T the number of bytes given to write() so far: the buffer holds the last
\* T mod chunk_size of them, fewer than a chunk; chunk_id is T div
\* chunk_size; the chunks emitted are, in order, the consecutive blocks of
\* chunk_size bytes of the input; and the writer, its medium included, is
\* what a single write() of the whole input leaves.
C21_Buffering ==
    closes = 0 =>
        LET T == Len(written)
        IN  /\ Len(buffer) = T % ChunkSize
            /\ Len(buffer) < ChunkSize
            /\ chunk_id = T \div ChunkSize
            /\ buffer = SubSeq(written, T - (T % ChunkSize) + 1, T)
            /\ Len(chunks) = chunk_id
            /\ \A i \in 1 .. Len(chunks) :
                 chunks[i].data
                   = SubSeq(written, (i - 1) * ChunkSize + 1, i * ChunkSize)
            /\ Writer = write(NewWriter, written)

C21_Witness ==
    /\ closes = 0
    /\ writes = MaxWrites
    /\ chunk_id > MaxTableEntries + 1
    /\ Len(buffer) = ChunkSize - 1
    /\ \E i \in 1 .. Len(buffer) : buffer[i] # 0
    /\ Len(written) % ChunkSize # 0

====
